---------------------------- MODULE Spec2Model ----------------------------
(***************************************************************************)
(* The game-logic core of the 3D Tetris game of src/src/App.js: the grid,  *)
(* the current and next piece, the reducer, the collision check, the       *)
(* rotation, the lock and the two-stage row clear, driven by the input     *)
(* interval, the gravity interval and the row-clear timeouts; and the App  *)
(* component around it, which mounts a session of the game per start and   *)
(* returns to the menu.                                                    *)
(*                                                                         *)
(* Coordinates are the source's: grid[y][x] with y = 0 the bottom row.     *)
(* A shape is a tuple of rows of 0/1; shape[r][c] here is shape[r-1][c-1]  *)
(* in the source (TLA+ tuples start at 1).  A position is <<x, y, 0>>.     *)
(* A grid cell is EMPTY (the source's 0), a colour of PIECE_COLORS, or one *)
(* of the markers "clearing" / "falling".                                  *)
(***************************************************************************)
EXTENDS Integers, Sequences, FiniteSets, TLC

GRID_WIDTH == 10
GRID_HEIGHT == 20
POINTS_PER_ROW == 100
\* Period of the gravity interval and delay of each row-clear timeout (ms).
GRAVITY_MS == 500
CLEAR_DELAY_MS == 300
\* Delay of the return to the menu after a game over (ms).
RETURN_DELAY_MS == 2000

\* The number of pieces a session spawns before its timers are stopped.
MaxPieces == 1
\* The number of games started in a run, the one in progress at first included.
MaxSessions == 2

EMPTY == "empty"
CLEARING == "clearing"
FALLING == "falling"

PIECE_COLORS ==
    << "#ff004d", "#00e436", "#29adff", "#ff77a8", "#ffa300", "#ffec27", "#73eff7" >>

shapes ==
    << << <<1, 1, 1, 1>> >>,
       << <<1, 1>>, <<1, 1>> >>,
       << <<1, 1, 1>>, <<0, 1, 0>> >>,
       << <<1, 1, 1>>, <<1, 0, 0>> >>,
       << <<1, 1, 1>>, <<0, 0, 1>> >>,
       << <<1, 1, 0>>, <<0, 1, 1>> >>,
       << <<0, 1, 1>>, <<1, 1, 0>> >> >>

\* A spawn position one row higher.
SpawnPosition_rowSixteen == <<4, 16, 0>>

SpawnPosition == <<4, 15, 0>>

Rows == 0 .. (GRID_HEIGHT - 1)
Cols == 0 .. (GRID_WIDTH - 1)

EmptyRow == [x \in Cols |-> EMPTY]
EmptyGrid == [y \in Rows |-> EmptyRow]

\* checkCollision with the floor test off by one (newY <= 0).
checkCollision_floorOffByOne(position, shape, g) ==
    \E y \in 1 .. Len(shape) :
        \E x \in 1 .. Len(shape[y]) :
            /\ shape[y][x] = 1
            /\ LET newX == position[1] + (x - 1)
                   newY == position[2] + (y - 1)
               IN  \/ newX < 0
                   \/ newX >= GRID_WIDTH
                   \/ newY <= 0
                   \/ (newY < GRID_HEIGHT /\ g[newY][newX] # EMPTY)

(***************************************************************************)
(* checkCollision, with the grid of the closure made a parameter.          *)
(***************************************************************************)
checkCollision(position, shape, g) ==
    \E y \in 1 .. Len(shape) :
        \E x \in 1 .. Len(shape[y]) :
            /\ shape[y][x] = 1
            /\ LET newX == position[1] + (x - 1)
                   newY == position[2] + (y - 1)
               IN  \/ newX < 0
                   \/ newX >= GRID_WIDTH
                   \/ newY < 0
                   \/ (newY < GRID_HEIGHT /\ g[newY][newX] # EMPTY)

\* rotatePiece that takes the shape for a square matrix.
rotatePiece_square(shape) ==
    [i \in 1 .. Len(shape) |->
        [j \in 1 .. Len(shape) |-> shape[Len(shape) + 1 - j][i]]]

(***************************************************************************)
(* rotatePiece: row i of the result is column i of the shape, read from    *)
(* the last row to the first.                                              *)
(***************************************************************************)
rotatePiece(shape) ==
    [i \in 1 .. Len(shape[1]) |->
        [j \in 1 .. Len(shape) |-> shape[Len(shape) + 1 - j][i]]]


\* gameReducer that credits one row's points for a clear of any number of rows.
gameReducer_flatCredit(state, action) ==
    CASE action.type = "MOVE_PIECE" ->
            [state EXCEPT !.currentPiece.position = action.position]
      [] action.type = "ROTATE_PIECE" ->
            [state EXCEPT !.currentPiece.shape = action.shape]
      [] action.type = "LOCK_PIECE" ->
            [state EXCEPT !.grid = action.grid]
      [] action.type = "CLEAR_ROWS" ->
            [state EXCEPT !.grid = action.grid,
                          !.score = state.score
                              + (IF action.rowsCleared > 0 THEN POINTS_PER_ROW ELSE 0),
                          !.clearedRows = action.rowIndices]
      [] action.type = "SPAWN_NEW_PIECE" ->
            [state EXCEPT !.clearedRows = << >>,
                          !.currentPiece = [position |-> SpawnPosition,
                                            shape |-> state.nextPiece.shape,
                                            color |-> state.nextPiece.color],
                          !.nextPiece = action.next]
      [] OTHER -> state

\* gameReducer whose ROTATE_PIECE writes the rotated shape to the next piece too.
gameReducer_rotatesNext(state, action) ==
    CASE action.type = "MOVE_PIECE" ->
            [state EXCEPT !.currentPiece.position = action.position]
      [] action.type = "ROTATE_PIECE" ->
            [state EXCEPT !.currentPiece.shape = action.shape,
                          !.nextPiece.shape = action.shape]
      [] action.type = "LOCK_PIECE" ->
            [state EXCEPT !.grid = action.grid]
      [] action.type = "CLEAR_ROWS" ->
            [state EXCEPT !.grid = action.grid,
                          !.score = state.score + action.rowsCleared * POINTS_PER_ROW,
                          !.clearedRows = action.rowIndices]
      [] action.type = "SPAWN_NEW_PIECE" ->
            [state EXCEPT !.clearedRows = << >>,
                          !.currentPiece = [position |-> SpawnPosition,
                                            shape |-> state.nextPiece.shape,
                                            color |-> state.nextPiece.color],
                          !.nextPiece = action.next]
      [] OTHER -> state

\* gameReducer whose spawn keeps the colour of the piece it replaces.
gameReducer_keepsColour(state, action) ==
    CASE action.type = "MOVE_PIECE" ->
            [state EXCEPT !.currentPiece.position = action.position]
      [] action.type = "ROTATE_PIECE" ->
            [state EXCEPT !.currentPiece.shape = action.shape]
      [] action.type = "LOCK_PIECE" ->
            [state EXCEPT !.grid = action.grid]
      [] action.type = "CLEAR_ROWS" ->
            [state EXCEPT !.grid = action.grid,
                          !.score = state.score + action.rowsCleared * POINTS_PER_ROW,
                          !.clearedRows = action.rowIndices]
      [] action.type = "SPAWN_NEW_PIECE" ->
            [state EXCEPT !.clearedRows = << >>,
                          !.currentPiece = [position |-> SpawnPosition,
                                            shape |-> state.nextPiece.shape,
                                            color |-> state.currentPiece.color],
                          !.nextPiece = action.next]
      [] OTHER -> state

(***************************************************************************)
(* gameReducer.  The two Math.random() draws of SPAWN_NEW_PIECE are the    *)
(* field `next` of the action.                                             *)
(***************************************************************************)
gameReducer(state, action) ==
    CASE action.type = "MOVE_PIECE" ->
            [state EXCEPT !.currentPiece.position = action.position]
      [] action.type = "ROTATE_PIECE" ->
            [state EXCEPT !.currentPiece.shape = action.shape]
      [] action.type = "LOCK_PIECE" ->
            [state EXCEPT !.grid = action.grid]
      [] action.type = "CLEAR_ROWS" ->
            [state EXCEPT !.grid = action.grid,
                          !.score = state.score + action.rowsCleared * POINTS_PER_ROW,
                          !.clearedRows = action.rowIndices]
      [] action.type = "SPAWN_NEW_PIECE" ->
            [state EXCEPT !.clearedRows = << >>,
                          !.currentPiece = [position |-> SpawnPosition,
                                            shape |-> state.nextPiece.shape,
                                            color |-> state.nextPiece.color],
                          !.nextPiece = action.next]
      [] OTHER -> state

\* The state after a handler's dispatches, applied in the order they were made.
RECURSIVE dispatchAll(_, _)
dispatchAll(state, actions) ==
    IF actions = << >>
    THEN state
    ELSE dispatchAll(gameReducer(state, Head(actions)), Tail(actions))

\* lockedGrid that writes the piece one row above where it is.
lockedGrid_rowAbove(g, piece) ==
    [gridY \in Rows |->
        [gridX \in Cols |->
            LET y == gridY - piece.position[2]
                x == gridX - piece.position[1] + 1
            IN  IF /\ y \in 1 .. Len(piece.shape)
                   /\ x \in 1 .. Len(piece.shape[y])
                   /\ piece.shape[y][x] = 1
                THEN piece.color
                ELSE g[gridY][gridX]]]

(***************************************************************************)
(* lockPiece, lines 594-611: the grid with the piece's occupied cells set  *)
(* to its colour, where they lie inside the grid.  The source writes the   *)
(* cells into the rows of state.grid itself ([...grid] copies the outer    *)
(* array only), so this is also the grid every closure of that render      *)
(* sees from then on.                                                      *)
(***************************************************************************)
lockedGrid(g, piece) ==
    [gridY \in Rows |->
        [gridX \in Cols |->
            LET y == gridY - piece.position[2] + 1
                x == gridX - piece.position[1] + 1
            IN  IF /\ y \in 1 .. Len(piece.shape)
                   /\ x \in 1 .. Len(piece.shape[y])
                   /\ piece.shape[y][x] = 1
                THEN piece.color
                ELSE g[gridY][gridX]]]

(***************************************************************************)
(* checkForCompletedRows, lines 484-504 and 567-571: the completed rows in *)
(* ascending order, and the grid with those rows marked "clearing".        *)
(***************************************************************************)
RECURSIVE completedRowIndices(_, _)
completedRowIndices(g, y) ==
    IF y >= GRID_HEIGHT
    THEN << >>
    ELSE (IF \A x \in Cols : g[y][x] # EMPTY THEN <<y>> ELSE << >>)
            \o completedRowIndices(g, y + 1)

InSeq(v, s) == \E i \in 1 .. Len(s) : s[i] = v

\* checkForCompletedRows whose scan starts at row 1.
checkForCompletedRows_fromRowOne(g) ==
    LET indices == completedRowIndices(g, 1)
    IN  IF Len(indices) = 0
        THEN [grid |-> g, rowsCleared |-> 0, rowIndices |-> << >>]
        ELSE [grid |-> [y \in Rows |->
                          IF InSeq(y, indices) THEN [x \in Cols |-> CLEARING] ELSE g[y]],
              rowsCleared |-> Len(indices),
              rowIndices |-> indices]

checkForCompletedRows(g) ==
    LET indices == completedRowIndices(g, 0)
    IN  IF Len(indices) = 0
        THEN [grid |-> g, rowsCleared |-> 0, rowIndices |-> << >>]
        ELSE [grid |-> [y \in Rows |->
                          IF InSeq(y, indices) THEN [x \in Cols |-> CLEARING] ELSE g[y]],
              rowsCleared |-> Len(indices),
              rowIndices |-> indices]

includesClearing(row) == \E x \in Cols : row[x] = CLEARING

(***************************************************************************)
(* The first timeout of checkForCompletedRows, lines 509-534: finalGrid    *)
(* takes the rows without a "clearing" cell from the bottom up, and        *)
(* fallingGrid marks their occupied cells "falling".                       *)
(***************************************************************************)
RECURSIVE copyRows(_, _, _, _)
copyRows(newGrid, y, targetRow, finalGrid) ==
    IF y >= GRID_HEIGHT
    THEN finalGrid
    ELSE IF ~includesClearing(newGrid[y])
         THEN copyRows(newGrid, y + 1, targetRow + 1,
                       [finalGrid EXCEPT ![targetRow] = newGrid[y]])
         ELSE copyRows(newGrid, y + 1, targetRow, finalGrid)

\* finalGridOf that commits the rows with their cells still marked "falling".
finalGridOf_keepsMarkers(newGrid) ==
    copyRows([y \in Rows |->
                 IF ~includesClearing(newGrid[y])
                 THEN [x \in Cols |-> IF newGrid[y][x] # EMPTY THEN FALLING ELSE EMPTY]
                 ELSE newGrid[y]],
             0, 0, EmptyGrid)

\* finalGridOf that packs the rows from row 1 upward.
finalGridOf_fromRowOne(newGrid) == copyRows(newGrid, 0, 1, EmptyGrid)

\* finalGridOf that empties the cleared rows and leaves the others where they are.
finalGridOf_rowsStay(newGrid) ==
    [y \in Rows |-> IF includesClearing(newGrid[y]) THEN EmptyRow ELSE newGrid[y]]

finalGridOf(newGrid) == copyRows(newGrid, 0, 0, EmptyGrid)

fallingGridOf(newGrid) ==
    [y \in Rows |->
        IF ~includesClearing(newGrid[y])
        THEN [x \in Cols |-> IF newGrid[y][x] # EMPTY THEN FALLING ELSE EMPTY]
        ELSE newGrid[y]]


(***************************************************************************)
(* The state.  Of the session (the Tetris component): the reducer's state  *)
(* (lines 258-273), gameOver (line 278), the time left until the gravity   *)
(* interval fires, the pending row-clear timeouts with what their closures *)
(* captured, and three counters of the session's history: the pieces       *)
(* spawned and the pieces locked since the initial state, and the rows     *)
(* found complete at all locks so far.  Of the App component (lines        *)
(* 930-933): isPlaying, its score (appScore here), gameReset, which is the *)
(* key of the mounted session, and the pending timeouts of checkGameOver   *)
(* that return to the menu, each the time left until it fires.  Of the     *)
(* keyboard (lines 293-305): the keys that are down, and for each key the  *)
(* time since the input interval last acted on it, which is Date.now()     *)
(* minus its lastKeyTime, kept up to the key's debounce time and as        *)
(* `expired` beyond it.                                                    *)
(***************************************************************************)
Keys == {"left", "right", "down", "space"}

\* Debounce times under which the rotation is as quick as a move.
DEBOUNCE_MS_allAlike ==
    [k \in Keys |-> IF k = "down" THEN 50 ELSE 100]

\* The debounce time of each key, lines 406, 418, 430 and 442.
DEBOUNCE_MS ==
    [k \in Keys |-> CASE k = "down" -> 50 [] k = "space" -> 200 [] OTHER -> 100]

\* The period of the input interval, line 452.
INPUT_INTERVAL_MS == 16

expired(k) == DEBOUNCE_MS[k] + 1
aged(k, age) ==
    IF age + INPUT_INTERVAL_MS > DEBOUNCE_MS[k]
    THEN expired(k)
    ELSE age + INPUT_INTERVAL_MS

VARIABLES grid, currentPiece, nextPiece, score, clearedRows, gameOver,
          gravityDue, timeouts, pieces, locks, rowsClearedTotal,
          isPlaying, appScore, gameReset, menuTimers,
          keysPressed, keyAge

vars == << grid, currentPiece, nextPiece, score, clearedRows, gameOver,
           gravityDue, timeouts, pieces, locks, rowsClearedTotal,
           isPlaying, appScore, gameReset, menuTimers,
           keysPressed, keyAge >>

\* The reducer's state as the record the source destructures at line 277.
gameState ==
    [currentPiece |-> currentPiece, nextPiece |-> nextPiece, grid |-> grid,
     score |-> score, clearedRows |-> clearedRows]

downPosition(piece) ==
    << piece.position[1], piece.position[2] - 1, piece.position[3] >>
leftPosition(piece) ==
    << piece.position[1] - 1, piece.position[2], piece.position[3] >>
rightPosition(piece) ==
    << piece.position[1] + 1, piece.position[2], piece.position[3] >>

(***************************************************************************)
(* The grids a session starts the model from.  Each is a stack of locked   *)
(* pieces a game reaches from the empty grid without a cleared row:        *)
(*   FlatGrid   four horizontal I pieces, rows 0-1 of columns 0-7;         *)
(*   TowerGrid  a horizontal I on (2..5, 0), a vertical I in column 6,     *)
(*              four vertical I in column 7 (rows 0-15), an O on columns   *)
(*              8-9.  Only the I among the shapes collides at the spawn    *)
(*              position on it, through cell (7, 15).                      *)
(*   TallTowerGrid  the same with column 7 built of three vertical I, a    *)
(*              horizontal I on (4..7, 12) and a vertical I on rows 13-16, *)
(*              so that cell (7, 15) stays occupied when one row below is  *)
(*              removed.                                                   *)
(*   GapGrid    two horizontal I on (0..7, 0) and a vertical I in column   *)
(*              8: the bottom row lacks cell (9, 0) only.                  *)
(*   DeepTowerGrid  four horizontal I on rows 0-1 of columns 2-9, three    *)
(*              vertical I in column 7 (rows 2-13) and an O on columns     *)
(*              7-8, rows 14-15: an O in columns 0-1 completes two rows,   *)
(*              and the I collides at the spawn position through (7, 15).  *)
(*   WellGrid   six O stacked on columns 4-5 (rows 0-11) between four       *)
(*              vertical I in column 3 and four in column 6 (rows 0-15):   *)
(*              an O at the spawn position can go down three rows and      *)
(*              neither left nor right.                                    *)
(***************************************************************************)
Put(g, cells, color) ==
    [y \in Rows |-> [x \in Cols |-> IF <<x, y>> \in cells THEN color ELSE g[y][x]]]

FlatGrid == Put(EmptyGrid, (0 .. 7) \X (0 .. 1), PIECE_COLORS[7])

TowerGrid ==
    Put(Put(Put(Put(EmptyGrid,
                    (2 .. 5) \X {0}, PIECE_COLORS[7]),
                {6} \X (0 .. 3), PIECE_COLORS[7]),
            {7} \X (0 .. 15), PIECE_COLORS[4]),
        (8 .. 9) \X (0 .. 1), PIECE_COLORS[6])

TallTowerGrid ==
    Put(Put(Put(Put(Put(Put(EmptyGrid,
                            (2 .. 5) \X {0}, PIECE_COLORS[7]),
                        {6} \X (0 .. 3), PIECE_COLORS[7]),
                    {7} \X (0 .. 11), PIECE_COLORS[4]),
                (4 .. 7) \X {12}, PIECE_COLORS[5]),
            {7} \X (13 .. 16), PIECE_COLORS[4]),
        (8 .. 9) \X (0 .. 1), PIECE_COLORS[6])

GapGrid ==
    Put(Put(EmptyGrid,
            (0 .. 7) \X {0}, PIECE_COLORS[7]),
        {8} \X (0 .. 3), PIECE_COLORS[4])

\* The pieces Math.random() draws in the model: for the next piece at a spawn,
\* and for the pieces of the initial state of a session.
DeepTowerGrid ==
    Put(Put(Put(EmptyGrid,
                (2 .. 9) \X (0 .. 1), PIECE_COLORS[7]),
            {7} \X (2 .. 13), PIECE_COLORS[4]),
        (7 .. 8) \X (14 .. 15), PIECE_COLORS[6])

WellGrid ==
    Put(Put(Put(EmptyGrid,
                (4 .. 5) \X (0 .. 11), PIECE_COLORS[6]),
            {3} \X (0 .. 15), PIECE_COLORS[4]),
        {6} \X (0 .. 15), PIECE_COLORS[4])

NextChoices ==
    { [shape |-> shapes[1], color |-> PIECE_COLORS[2]],
      [shape |-> shapes[2], color |-> PIECE_COLORS[3]] }

(***************************************************************************)
(* A session with its first piece just spawned (lines 287-290): on the     *)
(* empty grid with any shape of the catalog, on FlatGrid with an O or a T  *)
(* after two rows were cleared earlier, on one of the tower grids with an  *)
(* O and the I next, or on GapGrid with an I.                              *)
(***************************************************************************)
Scenarios ==
    { [grid |-> EmptyGrid, shape |-> shapes[i], next |-> shapes[1], cleared |-> 0]
        : i \in 1 .. Len(shapes) }
    \cup { [grid |-> FlatGrid, shape |-> shapes[i], next |-> shapes[1], cleared |-> 2]
        : i \in {2, 3} }
    \cup { [grid |-> g, shape |-> shapes[2], next |-> shapes[1], cleared |-> 0]
        : g \in {TowerGrid, TallTowerGrid} }
    \cup { [grid |-> GapGrid, shape |-> shapes[1], next |-> shapes[1], cleared |-> 0] }

\* No key is down and no key was acted on yet (lastKeyTime is 0, lines 300-305).
sessionOn(s) ==
    /\ grid = s.grid
    /\ currentPiece = [position |-> SpawnPosition, shape |-> s.shape,
                       color |-> PIECE_COLORS[1]]
    /\ nextPiece = [shape |-> s.next, color |-> PIECE_COLORS[2]]
    /\ score = s.cleared * POINTS_PER_ROW
    /\ clearedRows = << >>
    /\ gameOver = FALSE
    /\ gravityDue = GRAVITY_MS
    /\ timeouts = {}
    /\ pieces = 0
    /\ locks = 0
    /\ rowsClearedTotal = s.cleared
    /\ isPlaying = TRUE
    /\ appScore = s.cleared * POINTS_PER_ROW
    /\ gameReset = 1
    /\ menuTimers = {}
    /\ keysPressed = {}
    /\ keyAge = [k \in Keys |-> expired(k)]

Init == \E s \in Scenarios : sessionOn(s)

\* checkGameOver that schedules no return to the menu.
returnToMenuTimers_none(setsGameOver) == menuTimers

(***************************************************************************)
(* checkGameOver, lines 578-584: when it sets gameOver it schedules the    *)
(* call of togglePlay that returns to the menu.                            *)
(***************************************************************************)
returnToMenuTimers(setsGameOver) ==
    IF setsGameOver THEN menuTimers \cup {RETURN_DELAY_MS} ELSE menuTimers

\* A render under which the gravity interval keeps running: it is restarted only
\* when it has just fired.
render_keepsInterval(state, pieceChanged, over) ==
    LET collides == /\ pieceChanged
                    /\ checkCollision(state.currentPiece.position,
                                      state.currentPiece.shape, state.grid)
    IN  /\ grid' = state.grid
        /\ currentPiece' = state.currentPiece
        /\ nextPiece' = state.nextPiece
        /\ score' = state.score
        /\ clearedRows' = state.clearedRows
        /\ gameOver' = (over \/ collides)
        /\ gravityDue' = (IF gravityDue = 0 THEN GRAVITY_MS ELSE gravityDue)
        /\ appScore' = state.score
        /\ menuTimers' = returnToMenuTimers(\/ over /\ ~gameOver
                                            \/ ~over /\ collides)

(***************************************************************************)
(* What a handler leaves behind: the reducer's state after its dispatches, *)
(* then the render's effects.  `over` is gameOver as the handler left it.  *)
(* The effect of lines 648-654 runs when the current piece was replaced    *)
(* and the render's gameOver is false, and calls checkGameOver on the      *)
(* piece where it is.  The effect of lines 282-284 hands the score to the  *)
(* App.  The effect of lines 399-478 restarts both intervals whenever the  *)
(* state changed.                                                          *)
(***************************************************************************)
render(state, pieceChanged, over) ==
    LET collides == /\ pieceChanged
                    /\ checkCollision(state.currentPiece.position,
                                      state.currentPiece.shape, state.grid)
    IN  /\ grid' = state.grid
        /\ currentPiece' = state.currentPiece
        /\ nextPiece' = state.nextPiece
        /\ score' = state.score
        /\ clearedRows' = state.clearedRows
        /\ gameOver' = (over \/ collides)
        /\ gravityDue' = GRAVITY_MS
        /\ appScore' = state.score
        /\ menuTimers' = returnToMenuTimers(\/ over /\ ~gameOver
                                            \/ ~over /\ collides)

\* The variables a render assigns.
renderVars ==
    << grid, currentPiece, nextPiece, score, clearedRows, gameOver, gravityDue,
       appScore, menuTimers >>

\* checkGameOver, lines 575-589: whether it sets gameOver.
checkGameOver(position, shape, g) == checkCollision(position, shape, g)

\* The game loops that run although the game is over.
loopsRunning_afterGameOver == isPlaying

(***************************************************************************)
(* The input and the gravity interval run while the session is mounted     *)
(* (line 980) and the game is not over (line 400).                         *)
(***************************************************************************)
loopsRunning == isPlaying /\ ~gameOver

\* Whether the session that set a timeout is the mounted one: the dispatch of
\* an unmounted component changes nothing.
mounted(t) == isPlaying /\ t.session = gameReset

\* The input interval that dispatches every request without asking checkCollision.
inputActions_unchecked ==
    LET move(position) == << [type |-> "MOVE_PIECE", position |-> position] >>
        newShape == rotatePiece(currentPiece.shape)
        left == move(leftPosition(currentPiece))
        right == move(rightPosition(currentPiece))
        down == move(downPosition(currentPiece))
        rotate == << [type |-> "ROTATE_PIECE", shape |-> newShape] >>
    IN  [ready \in SUBSET Keys |->
            (IF "left" \in ready THEN left ELSE << >>)
            \o (IF "right" \in ready THEN right ELSE << >>)
            \o (IF "down" \in ready THEN down ELSE << >>)
            \o (IF "space" \in ready THEN rotate ELSE << >>)]

(***************************************************************************)
(* One callback of the input interval, lines 403-452.  `ready` holds the   *)
(* keys that are pressed and whose debounce time has passed.  Every        *)
(* request is computed from the current piece of the render the callback   *)
(* closes over, and the accepted ones are dispatched in the order left,    *)
(* right, down, rotate.                                                    *)
(***************************************************************************)
inputActions ==
    LET move(position) ==
            IF ~checkCollision(position, currentPiece.shape, grid)
            THEN << [type |-> "MOVE_PIECE", position |-> position] >>
            ELSE << >>
        newShape == rotatePiece(currentPiece.shape)
        left == move(leftPosition(currentPiece))
        right == move(rightPosition(currentPiece))
        down == move(downPosition(currentPiece))
        rotate ==
            IF ~checkCollision(currentPiece.position, newShape, grid)
            THEN << [type |-> "ROTATE_PIECE", shape |-> newShape] >>
            ELSE << >>
    IN  [ready \in SUBSET Keys |->
            (IF "left" \in ready THEN left ELSE << >>)
            \o (IF "right" \in ready THEN right ELSE << >>)
            \o (IF "down" \in ready THEN down ELSE << >>)
            \o (IF "space" \in ready THEN rotate ELSE << >>)]

InputTick ==
    /\ loopsRunning
    /\ pieces < MaxPieces
    /\ \E actions \in {inputActions[ready] : ready \in SUBSET Keys} :
        IF actions = << >>
        THEN UNCHANGED vars
        ELSE /\ render(dispatchAll(gameState, actions), TRUE, gameOver)
             /\ UNCHANGED << timeouts, pieces, locks, rowsClearedTotal,
                             isPlaying, gameReset, keysPressed, keyAge >>

(***************************************************************************)
(* lockPiece, lines 592-645, with the two timeouts checkForCompletedRows   *)
(* schedules kept as one record: the grid it works on, and the grid, next  *)
(* piece and gameOver of the render whose closure it is.                   *)
(***************************************************************************)
lockPiece ==
    LET newGrid == lockedGrid(grid, currentPiece)
        result == checkForCompletedRows(newGrid)
        completed == {y \in Rows : \A x \in Cols : newGrid[y][x] # EMPTY}
    IN  /\ locks' = locks + 1
        /\ rowsClearedTotal' = rowsClearedTotal + Cardinality(completed)
        /\ IF Len(result.rowIndices) > 0
           THEN /\ render(gameReducer(gameState,
                                      [type |-> "CLEAR_ROWS", grid |-> result.grid,
                                       rowsCleared |-> result.rowsCleared,
                                       rowIndices |-> result.rowIndices]),
                          FALSE, gameOver)
                /\ timeouts' = timeouts \cup
                       { [stage |-> "clear", due |-> CLEAR_DELAY_MS,
                          work |-> result.grid, grid |-> newGrid,
                          nextPiece |-> nextPiece, gameOver |-> gameOver,
                          session |-> gameReset] }
                /\ pieces' = pieces
           ELSE LET locked == gameReducer(gameState,
                                          [type |-> "LOCK_PIECE", grid |-> newGrid])
                IN  /\ timeouts' = timeouts
                    /\ IF checkGameOver(SpawnPosition, nextPiece.shape, newGrid)
                       THEN /\ render(locked, FALSE, TRUE)
                            /\ pieces' = pieces
                       ELSE /\ \E next \in NextChoices :
                                 render(gameReducer(locked,
                                            [type |-> "SPAWN_NEW_PIECE", next |-> next]),
                                        TRUE, gameOver)
                            /\ pieces' = pieces + 1

(***************************************************************************)
(* One callback of the gravity interval, lines 455-472.                    *)
(***************************************************************************)
GravityTick ==
    /\ loopsRunning
    /\ pieces < MaxPieces
    /\ gravityDue = 0
    /\ UNCHANGED << isPlaying, gameReset, keysPressed, keyAge >>
    /\ IF Len(clearedRows) > 0
       THEN /\ gravityDue' = GRAVITY_MS
            /\ UNCHANGED << grid, currentPiece, nextPiece, score, clearedRows, gameOver,
                            timeouts, pieces, locks, rowsClearedTotal,
                            appScore, menuTimers >>
       ELSE IF ~checkCollision(downPosition(currentPiece), currentPiece.shape, grid)
            THEN /\ render(gameReducer(gameState,
                                [type |-> "MOVE_PIECE",
                                 position |-> downPosition(currentPiece)]),
                           TRUE, gameOver)
                 /\ UNCHANGED << timeouts, pieces, locks, rowsClearedTotal >>
            ELSE lockPiece

\* The first timeout that credits a row again when it shows the falling grid.
ClearRowsTimeout_creditsAgain ==
    \E t \in timeouts :
        /\ t.stage = "clear"
        /\ t.due = 0
        /\ IF mounted(t)
           THEN render(gameReducer(gameState,
                                   [type |-> "CLEAR_ROWS", grid |-> fallingGridOf(t.work),
                                    rowsCleared |-> 1, rowIndices |-> << >>]),
                       FALSE, gameOver)
           ELSE UNCHANGED renderVars
        /\ timeouts' = (timeouts \ {t}) \cup
               { [t EXCEPT !.stage = "commit", !.due = CLEAR_DELAY_MS,
                           !.work = finalGridOf(t.work)] }
        /\ UNCHANGED << pieces, locks, rowsClearedTotal, isPlaying, gameReset,
                        keysPressed, keyAge >>

(***************************************************************************)
(* The first timeout of a row clear, lines 507-565: it shows the falling   *)
(* grid and schedules the second with the compacted grid.                  *)
(***************************************************************************)
ClearRowsTimeout ==
    \E t \in timeouts :
        /\ t.stage = "clear"
        /\ t.due = 0
        /\ IF mounted(t)
           THEN render(gameReducer(gameState,
                                   [type |-> "CLEAR_ROWS", grid |-> fallingGridOf(t.work),
                                    rowsCleared |-> 0, rowIndices |-> << >>]),
                       FALSE, gameOver)
           ELSE UNCHANGED renderVars
        /\ timeouts' = (timeouts \ {t}) \cup
               { [t EXCEPT !.stage = "commit", !.due = CLEAR_DELAY_MS,
                           !.work = finalGridOf(t.work)] }
        /\ UNCHANGED << pieces, locks, rowsClearedTotal, isPlaying, gameReset,
                        keysPressed, keyAge >>

(***************************************************************************)
(* The second timeout, lines 545-564: it commits the compacted grid and    *)
(* spawns the next piece unless the closure's checkCollision, which reads  *)
(* the grid of the render that locked the piece, reports a collision.      *)
(***************************************************************************)
CommitTimeout ==
    \E t \in timeouts :
        /\ t.stage = "commit"
        /\ t.due = 0
        /\ timeouts' = timeouts \ {t}
        /\ UNCHANGED << locks, rowsClearedTotal, isPlaying, gameReset,
                        keysPressed, keyAge >>
        /\ IF mounted(t)
           THEN LET locked == gameReducer(gameState,
                                          [type |-> "LOCK_PIECE", grid |-> t.work])
                IN  IF /\ ~t.gameOver
                       /\ ~checkCollision(SpawnPosition, t.nextPiece.shape, t.grid)
                    THEN /\ \E next \in NextChoices :
                              render(gameReducer(locked,
                                         [type |-> "SPAWN_NEW_PIECE", next |-> next]),
                                     TRUE, gameOver)
                         /\ pieces' = pieces + 1
                    ELSE /\ render(locked, FALSE, gameOver)
                         /\ pieces' = pieces
           ELSE UNCHANGED << renderVars, pieces >>

(***************************************************************************)
(* togglePlay, lines 935-945, of a render of the App in which isPlaying    *)
(* was `playing`: the App's state after it.                                *)
(***************************************************************************)
togglePlay(playing) ==
    IF playing
    THEN [isPlaying |-> FALSE, score |-> appScore, gameReset |-> gameReset]
    ELSE [isPlaying |-> TRUE, score |-> 0, gameReset |-> gameReset + 1]

\* The variables of a session but those of its keyboard.
sessionVarsOfGame ==
    << grid, currentPiece, nextPiece, score, clearedRows, gameOver, gravityDue,
       timeouts, pieces, locks, rowsClearedTotal >>

\* The variables of a session, which togglePlay leaves alone when it unmounts it.
sessionVars ==
    << grid, currentPiece, nextPiece, score, clearedRows, gameOver, gravityDue,
       timeouts, pieces, locks, rowsClearedTotal, keysPressed, keyAge >>

(***************************************************************************)
(* The timeout of checkGameOver, lines 582-584.  Its togglePlay is of a    *)
(* render in which the session was mounted, so isPlaying was true in it.   *)
(***************************************************************************)
TogglePlayTimeout ==
    /\ 0 \in menuTimers
    /\ menuTimers' = menuTimers \ {0}
    /\ LET app == togglePlay(TRUE)
       IN  /\ isPlaying' = app.isPlaying
           /\ appScore' = app.score
           /\ gameReset' = app.gameReset
    /\ UNCHANGED sessionVars

(***************************************************************************)
(* Time passes until the next timer is due.                                *)
(***************************************************************************)
armedTimers ==
    (IF loopsRunning THEN {gravityDue} ELSE {})
        \cup {t.due : t \in timeouts} \cup menuTimers

AdvanceTime ==
    /\ armedTimers # {}
    /\ 0 \notin armedTimers
    /\ LET d == CHOOSE m \in armedTimers : \A n \in armedTimers : m <= n
       IN  /\ gravityDue' = (IF loopsRunning THEN gravityDue - d ELSE gravityDue)
           /\ timeouts' = {[t EXCEPT !.due = t.due - d] : t \in timeouts}
           /\ menuTimers' = {m - d : m \in menuTimers}
    /\ UNCHANGED << grid, currentPiece, nextPiece, score, clearedRows, gameOver,
                    pieces, locks, rowsClearedTotal, isPlaying, appScore, gameReset,
                    keysPressed, keyAge >>

(***************************************************************************)
(* The Menu button of the game (line 996): togglePlay of the current       *)
(* render unmounts the session.  Its timeouts stay pending.                *)
(***************************************************************************)
MenuClick ==
    /\ isPlaying
    /\ LET app == togglePlay(isPlaying)
       IN  /\ isPlaying' = app.isPlaying
           /\ appScore' = app.score
           /\ gameReset' = app.gameReset
    /\ UNCHANGED << sessionVars, menuTimers >>

\* getInitialState that keeps the score of the session before.
getInitialState_keepsScore(current, next) ==
    [currentPiece |-> [position |-> SpawnPosition, shape |-> current.shape,
                       color |-> current.color],
     nextPiece |-> next, grid |-> EmptyGrid, score |-> score, clearedRows |-> << >>]

(***************************************************************************)
(* getInitialState, lines 258-273, with its two drawn pieces.              *)
(***************************************************************************)
getInitialState(current, next) ==
    [currentPiece |-> [position |-> SpawnPosition, shape |-> current.shape,
                       color |-> current.color],
     nextPiece |-> next, grid |-> EmptyGrid, score |-> 0, clearedRows |-> << >>]

(***************************************************************************)
(* The Start Game button of the menu (line 865): togglePlay of the current *)
(* render mounts a session under a new key (line 981), with the initial    *)
(* state, gameOver false (line 278) and the spawn of its first piece       *)
(* (lines 287-290).                                                        *)
(***************************************************************************)
StartGame ==
    /\ ~isPlaying
    /\ gameReset < MaxSessions
    /\ LET app == togglePlay(isPlaying)
       IN  /\ isPlaying' = app.isPlaying
           /\ gameReset' = app.gameReset
    /\ \E current \in NextChoices, first \in NextChoices, next \in NextChoices :
          render(gameReducer(getInitialState(current, first),
                             [type |-> "SPAWN_NEW_PIECE", next |-> next]),
                 TRUE, FALSE)
    /\ pieces' = 0
    /\ locks' = 0
    /\ rowsClearedTotal' = 0
    /\ keysPressed' = {}
    /\ keyAge' = [k \in Keys |-> expired(k)]
    /\ UNCHANGED timeouts

(***************************************************************************)
(* Spec: a session whose player uses the keys only, until the game is over *)
(* and the App has returned to the menu.  LiveSpec: the same with the      *)
(* timers firing when they are due.  AppSpec: with the buttons as well.    *)
(***************************************************************************)
Next ==
    \/ InputTick
    \/ GravityTick
    \/ ClearRowsTimeout
    \/ CommitTimeout
    \/ TogglePlayTimeout
    \/ AdvanceTime

Spec == Init /\ [][Next]_vars

LiveSpec ==
    /\ Init /\ [][Next]_vars
    /\ WF_vars(GravityTick)
    /\ WF_vars(ClearRowsTimeout)
    /\ WF_vars(CommitTimeout)
    /\ WF_vars(TogglePlayTimeout)
    /\ WF_vars(AdvanceTime)

AppNext ==
    \/ InputTick
    \/ GravityTick
    \/ ClearRowsTimeout
    \/ CommitTimeout
    \/ TogglePlayTimeout
    \/ AdvanceTime
    \/ MenuClick
    \/ StartGame

AppSpec == Init /\ [][AppNext]_vars

(***************************************************************************)
(* DeepTowerSpec: as Spec, for a session on DeepTowerGrid with an O and    *)
(* the I next.                                                             *)
(***************************************************************************)
DeepTowerInit ==
    sessionOn([grid |-> DeepTowerGrid, shape |-> shapes[2], next |-> shapes[1],
               cleared |-> 0])

DeepTowerSpec == DeepTowerInit /\ [][Next]_vars

(***************************************************************************)
(* The keyboard and the input interval with its clock.  handleKeyDown and  *)
(* handleKeyUp (lines 339-384) set and reset the key's flag.               *)
(***************************************************************************)
KeyDown(k) ==
    /\ isPlaying
    /\ k \notin keysPressed
    /\ keysPressed' = keysPressed \cup {k}
    /\ UNCHANGED << sessionVarsOfGame, isPlaying, appScore, gameReset, menuTimers, keyAge >>

KeyUp(k) ==
    /\ isPlaying
    /\ k \in keysPressed
    /\ keysPressed' = keysPressed \ {k}
    /\ UNCHANGED << sessionVarsOfGame, isPlaying, appScore, gameReset, menuTimers, keyAge >>

(***************************************************************************)
(* One callback of the input interval, lines 403-452, 16 ms after the one  *)
(* before: it acts on the keys that are down and whose debounce time has   *)
(* passed (lines 406, 418, 430, 442), and sets lastKeyTime of each of them *)
(* to now whether its request was accepted or not (lines 415, 427, 439,    *)
(* 451).                                                                   *)
(***************************************************************************)
InputIntervalTick ==
    /\ loopsRunning
    /\ LET now == [k \in Keys |-> aged(k, keyAge[k])]
           ready == {k \in keysPressed : now[k] > DEBOUNCE_MS[k]}
           actions == inputActions[ready]
       IN  /\ keyAge' = [k \in Keys |-> IF k \in ready THEN 0 ELSE now[k]]
           /\ keysPressed' = keysPressed
           /\ IF actions = << >>
              THEN UNCHANGED << sessionVarsOfGame, isPlaying, appScore, gameReset,
                                menuTimers >>
              ELSE /\ render(dispatchAll(gameState, actions), TRUE, gameOver)
                   /\ UNCHANGED << timeouts, pieces, locks, rowsClearedTotal,
                                   isPlaying, gameReset >>

(***************************************************************************)
(* KeySpec: the keyboard and the input interval alone, callback by         *)
(* callback, on a piece in a well, in the time the gravity interval leaves *)
(* them.  (Spec lets any set of keys be ready at an input tick.)           *)
(***************************************************************************)
KeyInit ==
    sessionOn([grid |-> WellGrid, shape |-> shapes[2], next |-> shapes[1], cleared |-> 0])

KeyNext ==
    \/ \E k \in Keys : KeyDown(k)
    \/ \E k \in Keys : KeyUp(k)
    \/ InputIntervalTick

KeySpec == KeyInit /\ [][KeyNext]_vars


(***************************************************************************)
(* What the claims are stated with.                                        *)
(***************************************************************************)
\* The grid cells <<x, y>> a shape occupies when placed at a position.
occupiedCells(position, shape) ==
    { <<position[1] + (c - 1), position[2] + (r - 1)>> :
        <<r, c>> \in { rc \in (1 .. Len(shape)) \X (1 .. Len(shape[1])) :
                          shape[rc[1]][rc[2]] = 1 } }

fullRow(g, y) == \A x \in Cols : g[y][x] # EMPTY
fullRows(g) == {y \in Rows : fullRow(g, y)}
seqToSet(s) == {s[i] : i \in 1 .. Len(s)}

\* A cell a piece may not take: beside the grid, below it, or occupied.
blockedCell(cell, g) ==
    \/ cell[1] \notin Cols
    \/ cell[2] < 0
    \/ (cell[2] \in Rows /\ g[cell[2]][cell[1]] # EMPTY)

\* The grid with a piece's cells set to its colour.
gridWithPiece(g, piece) ==
    Put(g, occupiedCells(piece.position, piece.shape) \cap (Cols \X Rows), piece.color)

\* The rows of g that are not full, packed from row 0 upward in their order,
\* under as many empty rows as g has full rows.
compacted(g) ==
    LET kept == Rows \ fullRows(g)
        rank(y) == Cardinality({z \in kept : z < y})
    IN  [r \in Rows |->
            IF \E y \in kept : rank(y) = r
            THEN g[CHOOSE y \in kept : rank(y) = r]
            ELSE EmptyRow]

\* The placements the handlers ask about in a state, and some beside, below
\* and above the grid.
probePositions ==
    { currentPiece.position, leftPosition(currentPiece), rightPosition(currentPiece),
      downPosition(currentPiece), SpawnPosition,
      << -1, currentPiece.position[2], 0 >>,
      << GRID_WIDTH - 1, currentPiece.position[2], 0 >>,
      << currentPiece.position[1], -1, 0 >>,
      << currentPiece.position[1], GRID_HEIGHT - 2, 0 >>,
      << currentPiece.position[1], GRID_HEIGHT, 0 >> }
probeShapes ==
    {currentPiece.shape, rotatePiece(currentPiece.shape), nextPiece.shape}

lockStep == locks' = locks + 1
spawnStep == pieces' = pieces + 1
commitStep == \E t \in timeouts : t.stage = "commit" /\ t.due = 0 /\ t \notin timeouts'

(***************************************************************************)
(* C1: checkCollision reports a collision exactly when some occupied cell  *)
(* of the shape at the position has x outside [0, 10), or y below 0, or    *)
(* lies on a non-empty cell inside the grid; cells above the top row never *)
(* collide.                                                                *)
(***************************************************************************)
C1_CollisionExact ==
    \A position \in probePositions : \A shape \in probeShapes :
        checkCollision(position, shape, grid)
            <=> \E cell \in occupiedCells(position, shape) : blockedCell(cell, grid)

\* A piece that rests on locked cells: moving it down collides inside the grid,
\* and the same shape placed above the top row does not.
C1_Witness ==
    /\ checkCollision(downPosition(currentPiece), currentPiece.shape, grid)
    /\ occupiedCells(downPosition(currentPiece), currentPiece.shape) \subseteq Cols \X Rows
    /\ ~checkCollision(<<currentPiece.position[1], GRID_HEIGHT, 0>>,
                       currentPiece.shape, grid)

(***************************************************************************)
(* C2: the rows checkForCompletedRows reports for the grid a lock hands it *)
(* are exactly the rows whose every cell is occupied, and when there is    *)
(* none it returns that grid unchanged with zero rows cleared.  Stated of  *)
(* the grid the current piece would be locked into where it is, and of the *)
(* grid every pending row clear was started from.                          *)
(***************************************************************************)
C2_CompletedRowsExact ==
    /\ LET g == lockedGrid(grid, currentPiece)
           result == checkForCompletedRows(g)
       IN  /\ seqToSet(result.rowIndices) = fullRows(g)
           /\ Len(result.rowIndices) = Cardinality(fullRows(g))
           /\ result.rowsCleared = Cardinality(fullRows(g))
           /\ fullRows(g) = {} =>
                 result = [grid |-> g, rowsCleared |-> 0, rowIndices |-> << >>]
    /\ \A t \in timeouts :
          t.stage = "clear" => seqToSet(clearedRows) = fullRows(t.grid)

\* A lock that completed row 1 and not row 0.
C2_Witness ==
    /\ clearedRows = <<1>>
    /\ \E t \in timeouts :
          t.stage = "clear" /\ fullRows(t.grid) = {1} /\ t.grid[0][0] # EMPTY

(***************************************************************************)
(* C3: the grid the second timeout commits holds the rows of the locked    *)
(* grid that were not cleared, unchanged and in their order from row 0 up, *)
(* under as many empty rows as rows were cleared.                          *)
(***************************************************************************)
C3_CompactionPreservesRows ==
    [][\A t \in timeouts :
          (t.stage = "commit" /\ t.due = 0 /\ t \notin timeouts')
              => grid' = compacted(t.grid)]_vars

\* FlatGrid after a T cleared row 1: row 0 kept below, the T's top cell moved
\* from row 2 to row 1.
C3_Witness ==
    /\ timeouts = {}
    /\ locks = 1
    /\ rowsClearedTotal = 3
    /\ grid[0][0] # EMPTY /\ grid[0][8] # EMPTY /\ grid[0][9] = EMPTY
    /\ grid[1][8] # EMPTY /\ grid[1][0] = EMPTY
    /\ grid[2] = EmptyRow

(***************************************************************************)
(* C4: after every step the score is 100 times the number of rows cleared  *)
(* in the session, and no step decreases it.                               *)
(***************************************************************************)
C4_ScoreIsRowsTimes100 ==
    [][score' = 100 * rowsClearedTotal' /\ score' >= score]_vars

\* Two rows cleared at once on top of the two cleared earlier.
C4_Witness ==
    score = 400 /\ rowsClearedTotal = 4 /\ locks = 1


\* A lock that completes no row, and the state of a gravity tick that acts.
lockWithoutRows == lockStep /\ fullRows(gridWithPiece(grid, currentPiece)) = {}
blockedBelow ==
    \E cell \in occupiedCells(downPosition(currentPiece), currentPiece.shape) :
        blockedCell(cell, grid)
movedDown ==
    /\ currentPiece' = [currentPiece EXCEPT !.position =
                           << currentPiece.position[1], currentPiece.position[2] - 1, 0 >>]
    /\ grid' = grid
    /\ score' = score
nextAtSpawn ==
    [position |-> <<4, 15, 0>>, shape |-> nextPiece.shape, color |-> nextPiece.color]

(***************************************************************************)
(* C5, as claimed: on a gravity tick with no row clear in progress, a      *)
(* piece that can move down moves down one cell and nothing else changes;  *)
(* one that cannot is locked, and the grid after the tick is the grid      *)
(* before it with exactly the piece's cells set to the piece's colour.     *)
(***************************************************************************)
C5_LockSetsPieceColour ==
    [][(GravityTick /\ Len(clearedRows) = 0)
          => IF ~blockedBelow
             THEN movedDown
             ELSE grid' = gridWithPiece(grid, currentPiece)]_vars

(***************************************************************************)
(* C5, amended: as claimed, except that every row the lock completes is,   *)
(* in the grid after the tick, set to the marker "clearing" in all cells.  *)
(***************************************************************************)
C5_LockSetsPieceColourOrClearing ==
    [][(GravityTick /\ Len(clearedRows) = 0)
          => IF ~blockedBelow
             THEN movedDown
             ELSE LET locked == gridWithPiece(grid, currentPiece)
                  IN  grid' = [y \in Rows |->
                                 IF fullRow(locked, y)
                                 THEN [x \in Cols |-> "clearing"]
                                 ELSE locked[y]]]_vars

\* The I piece locked from (4, 0) on the empty grid: exactly (4..7, 0) are set.
C5_Witness ==
    /\ locks = 1
    /\ grid = Put(EmptyGrid, (4 .. 7) \X {0}, PIECE_COLORS[1])

(***************************************************************************)
(* C6: a lock that completes no row, and the commit of the compacted grid  *)
(* after one that does, each leave the next piece as the current piece at  *)
(* the spawn position, or the game over.                                   *)
(***************************************************************************)
C6_LockEndsInSpawnOrGameOver ==
    [][(lockWithoutRows \/ commitStep)
          => (gameOver' \/ currentPiece' = nextAtSpawn)]_vars

(***************************************************************************)
(* C7: when a piece is due to spawn, after a lock without rows or after    *)
(* the commit of the compacted grid, and the next piece's shape at (4, 15) *)
(* overlaps the content of the grid, the game is over after the step.      *)
(***************************************************************************)
C7_SpawnCollisionIsGameOver ==
    [][((lockWithoutRows \/ commitStep)
          /\ \E cell \in occupiedCells(<<4, 15, 0>>, nextPiece.shape) :
                blockedCell(cell, grid'))
          => gameOver']_vars

(***************************************************************************)
(* C8: gameOver is set only by a step that is due to spawn a piece whose   *)
(* shape collides at the spawn position; no other step sets it.            *)
(***************************************************************************)
C8_GameOverOnlyAtSpawn ==
    [][(~gameOver /\ gameOver')
          => /\ lockWithoutRows \/ commitStep
             /\ \E cell \in occupiedCells(<<4, 15, 0>>, nextPiece.shape) :
                   blockedCell(cell, grid')]_vars

(***************************************************************************)
(* C9: a spawn makes the current piece the previous next piece at (4, 15), *)
(* draws the next piece from the catalog, leaves clearedRows empty and     *)
(* changes neither the score nor the grid the step's lock or commit        *)
(* produced; the state holds one current and one next piece.               *)
(***************************************************************************)
C9_SpawnPromotesNextPiece ==
    [][spawnStep
          => /\ currentPiece' = nextAtSpawn
             /\ DOMAIN currentPiece' = {"position", "shape", "color"}
             /\ DOMAIN nextPiece' = {"shape", "color"}
             /\ nextPiece'.shape \in seqToSet(shapes)
             /\ nextPiece'.color \in seqToSet(PIECE_COLORS)
             /\ clearedRows' = << >>
             /\ score' = score
             /\ IF lockStep
                THEN grid' = gridWithPiece(grid, currentPiece)
                ELSE \E t \in timeouts :
                        t.stage = "commit" /\ t.due = 0 /\ grid' = t.work]_vars

\* The second piece of a session, spawned by the lock of the first.
C9_Witness ==
    /\ pieces = 1
    /\ locks = 1
    /\ ~gameOver
    /\ currentPiece = [position |-> <<4, 15, 0>>, shape |-> shapes[1],
                       color |-> PIECE_COLORS[2]]
    /\ nextPiece.shape = shapes[2]

(***************************************************************************)
(* C10: four applications of rotatePiece give back the shape they started  *)
(* from, for the shapes of the catalog and for every rotation of them a    *)
(* piece of the game takes.                                                *)
(***************************************************************************)
rotatedFourTimes(shape) == rotatePiece(rotatePiece(rotatePiece(rotatePiece(shape))))
catalogRotatesBack == \A i \in 1 .. Len(shapes) : rotatedFourTimes(shapes[i]) = shapes[i]

C10_FourRotationsAreIdentity ==
    /\ rotatedFourTimes(currentPiece.shape) = currentPiece.shape
    /\ rotatedFourTimes(nextPiece.shape) = nextPiece.shape
    /\ catalogRotatesBack

\* The L piece after one accepted rotation.
C10_Witness ==
    /\ currentPiece.shape = << <<1, 1>>, <<0, 1>>, <<0, 1>> >>
    /\ currentPiece.position # <<4, 15, 0>>


\* A lock that fills the one empty cell of the bottom row and completes no
\* other row, and the grid without its bottom row under an empty top row.
fillsBottomRow ==
    /\ lockStep
    /\ Cardinality({x \in Cols : grid[0][x] = "empty"}) = 1
    /\ fullRows(grid) = {}
    /\ fullRows(gridWithPiece(grid, currentPiece)) = {0}
withoutBottomRow(g) ==
    [y \in Rows |-> IF y < GRID_HEIGHT - 1 THEN g[y + 1] ELSE EmptyRow]

(***************************************************************************)
(* C11: a lock that fills the one empty cell of the bottom row, no other   *)
(* row being or becoming full, raises the score by exactly 100 and starts  *)
(* one row clear, of row 0 of the grid with the piece locked in; the       *)
(* commit of that clear leaves this grid without its bottom row, under one *)
(* empty row at the top, and credits nothing more.                         *)
(***************************************************************************)
C11_OneRowClearOfBottomRow ==
    [][/\ fillsBottomRow
            => /\ score' = score + 100
               /\ clearedRows' = <<0>>
               /\ \E t \in timeouts' :
                     /\ timeouts' = timeouts \cup {t}
                     /\ t \notin timeouts
                     /\ t.grid = gridWithPiece(grid, currentPiece)
       /\ \A t \in timeouts :
             (/\ t.stage = "commit" /\ t.due = 0 /\ t \notin timeouts'
              /\ fullRows(t.grid) = {0})
                => /\ grid' = withoutBottomRow(t.grid)
                   /\ score' = score]_vars

\* GapGrid after the vertical I filled (9, 0) and the clear was committed.
C11_Witness ==
    /\ timeouts = {}
    /\ locks = 1
    /\ score = 100
    /\ grid = withoutBottomRow(Put(GapGrid, {9} \X (0 .. 3), PIECE_COLORS[1]))

(***************************************************************************)
(* C12: once gameOver is set, no step changes the current piece, the grid  *)
(* or the score of the session.                                            *)
(***************************************************************************)
C12_GameOverFreezesSession ==
    [][gameOver => /\ currentPiece' = currentPiece
                   /\ grid' = grid
                   /\ score' = score]_vars

\* The game is over and the delay of the return to the menu has passed.
C12_Witness ==
    gameOver /\ isPlaying /\ menuTimers = {0}

(***************************************************************************)
(* C13: whenever gameOver is set, the App eventually shows the menu again  *)
(* (isPlaying false), in every run in which the timers fire when they are  *)
(* due, whether or not the player does anything.                           *)
(***************************************************************************)
C13_GameOverReturnsToMenu == gameOver ~> ~isPlaying

\* The session that ended in a game over was unmounted by the timeout.
C13_Witness ==
    gameOver /\ ~isPlaying /\ menuTimers = {}

(***************************************************************************)
(* C14: every step that starts a game from the menu leaves a grid of 20    *)
(* rows of 10 empty cells, score 0 in the session and in the App, no       *)
(* clearing rows and gameOver false.                                       *)
(***************************************************************************)
C14_StartIsFresh ==
    [][(~isPlaying /\ isPlaying')
          => /\ DOMAIN grid' = 0 .. 19
             /\ \A y \in 0 .. 19 :
                   /\ DOMAIN grid'[y] = 0 .. 9
                   /\ \A x \in 0 .. 9 : grid'[y][x] = "empty"
             /\ score' = 0
             /\ appScore' = 0
             /\ clearedRows' = << >>
             /\ ~gameOver']_vars

\* A game started within two seconds of a game over: the timeout of the
\* session before is still pending.
C14_Witness ==
    /\ isPlaying
    /\ gameReset = 2
    /\ menuTimers # {}
    /\ ~gameOver
    /\ score = 0
    /\ currentPiece.position = <<4, 15, 0>>

\* A piece is falling: a session is mounted, its game is not over and no row
\* clear is in progress.
pieceFalling ==
    isPlaying /\ ~gameOver /\ clearedRows = << >> /\ timeouts = {}

(***************************************************************************)
(* C15: whenever a piece is falling, no occupied cell of the current piece *)
(* lies beside the grid, below it, or on a non-empty cell of the grid.     *)
(***************************************************************************)
C15_FallingPieceInFreeCells ==
    pieceFalling
        => \A cell \in occupiedCells(currentPiece.position, currentPiece.shape) :
              ~blockedCell(cell, grid)

\* A placement whose every cell is inside the grid's sides, not below it, and
\* not on a non-empty cell: the request for it passes the collision check.
freePlacement(position, shape) ==
    \A cell \in occupiedCells(position, shape) : ~blockedCell(cell, grid)

(***************************************************************************)
(* C16: while a piece is falling, whenever two of the requests of an input *)
(* tick (a horizontal move, the soft-drop, the rotation) each pass the     *)
(* collision check, an input tick can apply both: the piece one column     *)
(* aside and one row down, or one column aside and rotated, or one row     *)
(* down and rotated.                                                       *)
(***************************************************************************)
C16_AcceptedRequestsAllTakeEffect ==
    (pieceFalling /\ pieces < MaxPieces)
        => LET shape == currentPiece.shape
               rotated == rotatePiece(currentPiece.shape)
               down == downPosition(currentPiece)
           IN  /\ \A aside \in {leftPosition(currentPiece), rightPosition(currentPiece)} :
                     /\ (freePlacement(aside, shape) /\ freePlacement(down, shape))
                           => ENABLED (/\ InputTick
                                       /\ currentPiece'.position = <<aside[1], down[2], 0>>
                                       /\ currentPiece'.shape = shape)
                     /\ (/\ freePlacement(aside, shape)
                         /\ freePlacement(currentPiece.position, rotated))
                           => ENABLED (/\ InputTick
                                       /\ currentPiece'.position = aside
                                       /\ currentPiece'.shape = rotated)
               /\ (freePlacement(down, shape) /\ freePlacement(currentPiece.position, rotated))
                     => ENABLED (/\ InputTick
                                 /\ currentPiece'.position = down
                                 /\ currentPiece'.shape = rotated)

(***************************************************************************)
(* C17: a step that neither locks or spawns a piece nor runs a timeout of  *)
(* a row clear, as every input tick is, changes neither the grid, the      *)
(* score nor clearedRows, and applies no request the collision check       *)
(* rejects: the piece does not go left when the placement to its left is   *)
(* not free, nor right, nor down, nor does it rotate, when that placement  *)
(* is not free.                                                            *)
(***************************************************************************)
C17_RejectedRequestChangesNothing ==
    [][(locks' = locks /\ pieces' = pieces /\ timeouts' = timeouts)
          => LET position == currentPiece.position
                 shape == currentPiece.shape
             IN  /\ grid' = grid
                 /\ score' = score
                 /\ clearedRows' = clearedRows
                 /\ ~freePlacement(leftPosition(currentPiece), shape)
                       => currentPiece'.position[1] >= position[1]
                 /\ ~freePlacement(rightPosition(currentPiece), shape)
                       => currentPiece'.position[1] <= position[1]
                 /\ ~freePlacement(downPosition(currentPiece), shape)
                       => currentPiece'.position[2] = position[2]
                 /\ ~freePlacement(position, rotatePiece(shape))
                       => currentPiece'.shape = shape]_vars

\* The vertical I against the right wall: the move to the right and the
\* rotation are both rejected.
C17_Witness ==
    /\ pieceFalling
    /\ pieces < MaxPieces
    /\ currentPiece.shape = << <<1>>, <<1>>, <<1>>, <<1>> >>
    /\ currentPiece.position[1] = 9
    /\ ~freePlacement(rightPosition(currentPiece), currentPiece.shape)
    /\ ~freePlacement(currentPiece.position, rotatePiece(currentPiece.shape))

(***************************************************************************)
(* C18: while a piece is falling, the time left until the next gravity     *)
(* tick grows only by a gravity tick: no accepted move or rotation puts    *)
(* the gravity tick off.                                                   *)
(***************************************************************************)
C18_GravityNotPostponed ==
    [][(pieceFalling /\ pieceFalling' /\ gravityDue' > gravityDue) => GravityTick]_vars

(***************************************************************************)
(* C19: the score changes only in a step that locks a piece and finds      *)
(* completed rows, and then by 100 for each of them; no other step, the    *)
(* two timeouts of the row clear included, changes it.                     *)
(***************************************************************************)
C19_ScoreChangesOnlyAtLock ==
    [][score' # score
          => /\ lockStep
             /\ fullRows(gridWithPiece(grid, currentPiece)) # {}
             /\ score' = score
                    + 100 * Cardinality(fullRows(gridWithPiece(grid, currentPiece)))]_vars

\* One row was credited at a lock, and both timeouts and the spawn have passed.
C19_Witness ==
    /\ score = 100
    /\ locks = 1
    /\ pieces = 1
    /\ timeouts = {}
    /\ clearedRows = << >>

(***************************************************************************)
(* C20: the grid has 20 rows of 10 cells, each empty, a piece colour, or   *)
(* one of the markers "clearing" and "falling"; and when no row clear is   *)
(* in progress, no cell holds a marker.                                    *)
(***************************************************************************)
C20_GridShapeAndMarkers ==
    /\ DOMAIN grid = 0 .. 19
    /\ \A y \in 0 .. 19 :
          /\ DOMAIN grid[y] = 0 .. 9
          /\ \A x \in 0 .. 9 :
                /\ grid[y][x] \in {"empty", "clearing", "falling"} \cup seqToSet(PIECE_COLORS)
                /\ timeouts = {} => grid[y][x] \notin {"clearing", "falling"}

\* Between the two timeouts of a row clear: the cleared row is marked
\* "clearing" and a cell above it "falling".
C20_Witness ==
    /\ \E t \in timeouts : t.stage = "commit"
    /\ \E y \in Rows : \E x \in Cols : grid[y][x] = "clearing"
    /\ \E y \in Rows : \E x \in Cols : grid[y][x] = "falling"

rotationsOf(shape) ==
    { shape, rotatePiece(shape), rotatePiece(rotatePiece(shape)),
      rotatePiece(rotatePiece(rotatePiece(shape))) }
catalogRotations == UNION { rotationsOf(shapes[i]) : i \in 1 .. Len(shapes) }
pieceShapesFromCatalog ==
    /\ currentPiece.shape \in catalogRotations
    /\ Cardinality(occupiedCells(<<0, 0, 0>>, currentPiece.shape)) = 4
    /\ nextPiece.shape \in seqToSet(shapes)
rotationStep == pieces' = pieces /\ currentPiece'.shape # currentPiece.shape

(***************************************************************************)
(* C21: in every reachable state the current piece's shape is one of the   *)
(* four rotations of a shape of the catalog and has exactly four occupied  *)
(* cells, and the next piece's shape is a shape of the catalog as the      *)
(* catalog lists it; a step that rotates the current piece leaves the next *)
(* piece as it was.  (The catalog is a constant of the model: that         *)
(* rotatePiece builds new arrays, lines 331-333, is what makes it one.)    *)
(***************************************************************************)
C21_ShapesFromCatalog ==
    /\ []pieceShapesFromCatalog
    /\ [][rotationStep => nextPiece' = nextPiece]_vars

\* A vertical I, which only a rotation produces, with the catalog's I next.
C21_Witness ==
    /\ currentPiece.shape = << <<1>>, <<1>>, <<1>>, <<1>> >>
    /\ nextPiece.shape = shapes[1]
    /\ pieces = 0
    /\ ~gameOver

(***************************************************************************)
(* C26: in every reachable state every occupied cell of the current piece  *)
(* has y between 0 and 18, the piece's position has y between 0 and the    *)
(* spawn row 15, and the top grid row (y = 19) is empty: no lock has a     *)
(* cell above the grid to drop.                                            *)
(***************************************************************************)
C26_PieceBelowTopRow ==
    /\ \A cell \in occupiedCells(currentPiece.position, currentPiece.shape) :
          cell[2] \in 0 .. GRID_HEIGHT - 2
    /\ currentPiece.position[2] \in 0 .. 15
    /\ \A x \in Cols : grid[GRID_HEIGHT - 1][x] = EMPTY

\* The tallest reach: an I turned upright on the spawn row, cells on rows 15-18.
C26_Witness ==
    /\ currentPiece.shape = << <<1>>, <<1>>, <<1>>, <<1>> >>
    /\ currentPiece.position[2] = 15
    /\ (GRID_HEIGHT - 2) \in { cell[2] : cell \in occupiedCells(currentPiece.position,
                                                               currentPiece.shape) }

(***************************************************************************)
(* C23: while a row clear is in progress (from the lock that completed the *)
(* rows until its commit) no step locks a piece and no step moves the      *)
(* current piece down, and at most one row-clear sequence is pending at    *)
(* any time; so the grid the commit writes is the compaction of the grid   *)
(* of the latest lock.                                                     *)
(***************************************************************************)
C23_NoGravityDuringRowClear ==
    /\ [](Cardinality(timeouts) <= 1)
    /\ [][timeouts # {} =>
            /\ locks' = locks
            /\ currentPiece'.position[2] >= currentPiece.position[2]
            /\ (commitStep => \E t \in timeouts : grid' = compacted(t.grid))]_vars

\* The commit is due while the gravity interval, restarted by the first
\* timeout, has 200 ms left.
C23_Witness ==
    /\ \E t \in timeouts : t.stage = "commit" /\ t.due = 0
    /\ gravityDue = GRAVITY_MS - CLEAR_DELAY_MS
    /\ locks = 1
    /\ ~gameOver

nonEmptyCells(g) == Cardinality({ c \in Cols \X Rows : g[c[2]][c[1]] # EMPTY })
clearingRows(g) == { y \in Rows : includesClearing(g[y]) }

(***************************************************************************)
(* C24: each piece is committed to the grid once and with all four cells.  *)
(* Stated over steps, which with the cell count of the initial grid gives  *)
(* the claim's equation: a lock adds exactly four non-empty cells, a       *)
(* commit removes exactly ten for each cleared row, and no other step      *)
(* changes the number of non-empty cells.                                  *)
(***************************************************************************)
C24_FourCellsPerLockedPiece ==
    [][/\ lockStep => nonEmptyCells(grid') = nonEmptyCells(grid) + 4
       /\ commitStep => nonEmptyCells(grid') = nonEmptyCells(grid)
                            - GRID_WIDTH * Cardinality(clearingRows(grid))
       /\ (~lockStep /\ ~commitStep) => nonEmptyCells(grid') = nonEmptyCells(grid)]_vars

staleTimeoutStep ==
    \E t \in timeouts : t.due = 0 /\ t.session # gameReset /\ t \notin timeouts'
returnByTimeout == isPlaying /\ ~isPlaying' /\ menuTimers' # menuTimers

(***************************************************************************)
(* C25: a delayed callback of an earlier session changes nothing of a      *)
(* later one.  A row-clear timeout of a session that is no longer the      *)
(* mounted one leaves grid, score and isPlaying as they are, and the       *)
(* 2000 ms timeout returns to the menu only from a session whose own game  *)
(* is over: a running game ends by its game over or by the Menu button.    *)
(***************************************************************************)
C25_StaleCallbacksAreHarmless ==
    [][/\ staleTimeoutStep =>
            grid' = grid /\ score' = score /\ appScore' = appScore
            /\ isPlaying' = isPlaying
       /\ returnByTimeout => gameOver]_vars

\* The current piece is locked and the piece after it has not been spawned.
awaitingSpawn == locks > pieces /\ ~gameOver

(***************************************************************************)
(* C27: between a lock that completes rows and the spawn that follows it,  *)
(* no callback of the input interval changes the current piece: every      *)
(* request in that window is rejected.                                     *)
(***************************************************************************)
C27_NoInputBetweenLockAndSpawn ==
    [][(awaitingSpawn /\ InputTick) => currentPiece' = currentPiece]_vars

\* A step in which the input interval acts on key k: it sets lastKeyTime of
\* k to now.
actedOn(k) == keyAge[k] # 0 /\ keyAge'[k] = 0
claimedDebounce(k) == CASE k = "down" -> 50 [] k = "space" -> 200 [] OTHER -> 100

(***************************************************************************)
(* C22: each action has its own debounce.  When an input tick acts on a    *)
(* key, whether its request is accepted or rejected, the time since the    *)
(* tick that last acted on the same key is more than 100 ms for left and   *)
(* for right, more than 50 ms for soft-drop and more than 200 ms for       *)
(* rotate; and the time since the last act on a key is never set back by   *)
(* an act on another key.                                                  *)
(***************************************************************************)
C22_DebouncePerAction ==
    [][\A k \in Keys :
          /\ actedOn(k) =>
                /\ k \in keysPressed
                /\ keyAge[k] + INPUT_INTERVAL_MS > claimedDebounce(k)
          /\ ~actedOn(k) => keyAge'[k] >= keyAge[k]]_vars

\* The tick has just acted on left, whose request the wall of the well rejects,
\* one tick after it acted on down, whose request was accepted.
C22_Witness ==
    /\ keyAge["left"] = 0
    /\ keyAge["down"] = INPUT_INTERVAL_MS
    /\ currentPiece.position = <<4, 14, 0>>
    /\ grid = WellGrid

=============================================================================
